---- MODULE Spec2Model ----
(***************************************************************************)
(* The SVG module drawers of qrcode/image/styles/moduledrawers/svg.py as a *)
(* state machine: a drawer is constructed, initialized against an image,   *)
(* and then the image's per-module loop calls drawrect once per grid cell  *)
(* in row-major order.  The output sinks are img._img (element drawers)    *)
(* and img._subpaths (path drawers).                                       *)
(*                                                                         *)
(* Numbers.  The code computes with decimal.Decimal.  A Decimal is         *)
(* modelled as a fixed-point integer: the value v stands for v / Scale.    *)
(* Sums, differences, products by the style fractions and the divisions by *)
(* 2 and by 10 that the code performs are exact at this resolution for the *)
(* inputs enumerated below; the division by SCALE_CORRECTION is inexact in *)
(* the code (28 significant digits, ROUND_HALF_EVEN) and is inexact here   *)
(* (nearest multiple of 1/Scale, ROUND_HALF_EVEN).  The binary-float error *)
(* of literals such as 0.8 and 2.645 (below 1e-16) is under the model's    *)
(* resolution: they are the fractions 4/5 and 2645/1000.                   *)
(***************************************************************************)
EXTENDS Integers, Sequences, FiniteSets, TLC

VARIABLES
    modules,   \* the module grid (img.modules): rows of booleans, read-only
    phase,     \* "new" | "constructed" | "initialized"
    drawer,    \* the drawer object's attribute dictionary (self.*)
    img,       \* the image the drawer is initialized against (self.img)
    pos,       \* the per-module loop's position: cells already visited
    calls,     \* history: the drawrect calls made so far, in order
    probes,    \* the neighbor probes made by the last drawrect call
    inflight   \* per caller: the drawrect call it is in the middle of

vars == <<modules, phase, drawer, img, pos, calls, probes, inflight>>

---------------------------------------------------------------------------
(* Bounds of the model.                                                    *)

GridRows == 3
GridCols == 3

\* The callers that may be inside drawrect at the same time.
NumThreads == 2

---------------------------------------------------------------------------
(* Decimal arithmetic.                                                     *)

Scale == 800

\* The literal n/d (exact for every literal used below).
Dec(n, d) == (n * Scale) \div d

\* Decimal(i) for a Python int i.
OfInt(i) == i * Scale

\* n/d rounded to the nearest integer, ties to even (d > 0).
RoundHalfEven(n, d) ==
    LET q == n \div d
        r == n % d
    IN  IF 2 * r > d THEN q + 1
        ELSE IF 2 * r = d THEN q + (q % 2)
        ELSE q

\* Decimal.__mul__ and Decimal.__truediv__ under the context's rounding.
DecTimes(a, b) == RoundHalfEven(a * b, Scale)

DecDivide(a, b) ==
    IF b > 0 THEN RoundHalfEven(a * Scale, b)
    ELSE RoundHalfEven(-(a * Scale), -b)

\* int(a / b) for Python ints a, b (b > 0): truncation toward zero.
IntOfQuotient(a, b) == IF a >= 0 THEN a \div b ELSE -((-a) \div b)

\* min(1, max(0, x)) on Decimals.
Max(a, b) == IF a >= b THEN a ELSE b
Min(a, b) == IF a <= b THEN a ELSE b

SCALE_CORRECTION == Dec(2645, 1000)

---------------------------------------------------------------------------
(* Python sequences: len and indexing.  A list of n items is a function on *)
(* 0..n-1.  s[i] with -n <= i < 0 reads from the end; any other i outside  *)
(* 0..n-1 raises IndexError.                                               *)

len(s) == Cardinality(DOMAIN s)

InRange(s, i) == -len(s) <= i /\ i < len(s)

Wrap(s, i) == IF i < 0 THEN i + len(s) ELSE i

\* modules[row][col]: [raised |-> TRUE] stands for IndexError.
getitem2(m, row, col) ==
    IF ~InRange(m, row) THEN [raised |-> TRUE, value |-> FALSE]
    ELSE LET r == m[Wrap(m, row)]
         IN  IF ~InRange(r, col) THEN [raised |-> TRUE, value |-> FALSE]
             ELSE [raised |-> FALSE, value |-> r[Wrap(r, col)]]

\* A probe that would index the grid without the range test.
is_active_nocheck(m, row, col) == getitem2(m, row, col)

\* The nested is_active(row, col) of the element drawers' el().
is_active(m, row, col) ==
    IF 0 <= row /\ row < len(m) /\ 0 <= col /\ col < len(m[0])
    THEN getitem2(m, row, col)
    ELSE [raised |-> FALSE, value |-> FALSE]

---------------------------------------------------------------------------
(* Objects.  An object is its attribute dictionary: a record whose domain  *)
(* is the set of attributes that have been assigned.                       *)

hasattr(o, name) == name \in DOMAIN o

getattr(o, name, default) == IF name \in DOMAIN o THEN o[name] ELSE default

setattr(o, name, v) == (name :> v) @@ o

NoObject == <<>>

\* A keyword argument, or the parameter's default when it is not passed.
Kwarg(kwargs, name, default) == getattr(kwargs, name, default)

\* The is_active argument of drawrect: a plain bool b is [me |-> b]; an
\* ActiveWithNeighbors also carries the eight compass flags.  bool(a) is a.me.
PlainBool(b) == [me |-> b]

bool(a) == a.me

---------------------------------------------------------------------------
(* The drawer classes.                                                     *)

ElementClasses ==
    {"SvgSquareDrawer", "SvgCircleDrawer", "SvgGappedSquareDrawer",
     "SvgHorizontalBarsDrawer", "SvgVerticalBarsDrawer", "SvgRoundedDrawer"}

PathClasses ==
    {"SvgPathSquareDrawer", "SvgPathCircleDrawer", "SvgPathGappedSquareDrawer",
     "SvgPathVerticalBarsDrawer", "SvgPathHorizontalBarsDrawer",
     "SvgPathRoundedDrawer"}

Classes == ElementClasses \cup PathClasses

\* The class attribute needs_neighbors (False in the base class).
needs_neighbors(cls) ==
    cls \in {"SvgHorizontalBarsDrawer", "SvgVerticalBarsDrawer",
             "SvgRoundedDrawer", "SvgPathVerticalBarsDrawer",
             "SvgPathHorizontalBarsDrawer", "SvgPathRoundedDrawer"}

\* The classes that override drawrect to store the neighbor flags.
StoresNeighbors ==
    {"SvgPathVerticalBarsDrawer", "SvgPathHorizontalBarsDrawer",
     "SvgPathRoundedDrawer"}

DefaultColor == <<0, 0, 0>>

\* BaseSvgQRModuleDrawer.__init__
Base_init(cls, size_ratio) ==
    [cls |-> cls, size_ratio |-> size_ratio, trigger |-> TRUE]

\* __init__ of each class: the attribute dictionary after construction.
init(cls, kwargs) ==
    CASE cls \in {"SvgSquareDrawer", "SvgCircleDrawer"} ->
            setattr(Base_init(cls, Kwarg(kwargs, "size_ratio", OfInt(1))),
                    "color", DefaultColor)
      [] cls = "SvgGappedSquareDrawer" ->
            setattr(Base_init(cls, Kwarg(kwargs, "size_ratio", Dec(8, 10))),
                    "color", DefaultColor)
      [] cls \in {"SvgPathSquareDrawer", "SvgPathCircleDrawer"} ->
            Base_init(cls, Kwarg(kwargs, "size_ratio", OfInt(1)))
      [] cls = "SvgPathGappedSquareDrawer" ->
            Base_init(cls, Kwarg(kwargs, "size_ratio", Dec(8, 10)))
      [] cls = "SvgHorizontalBarsDrawer" ->
            setattr(setattr(
                Base_init(cls, Kwarg(kwargs, "size_ratio", OfInt(1))),
                "color", DefaultColor),
                "vertical_shrink", Kwarg(kwargs, "vertical_shrink", Dec(8, 10)))
      [] cls = "SvgVerticalBarsDrawer" ->
            setattr(setattr(
                Base_init(cls, Kwarg(kwargs, "size_ratio", OfInt(1))),
                "color", DefaultColor),
                "horizontal_shrink",
                Kwarg(kwargs, "horizontal_shrink", Dec(8, 10)))
      [] cls = "SvgRoundedDrawer" ->
            setattr(setattr(
                Base_init(cls, Kwarg(kwargs, "size_ratio", OfInt(1))),
                "color", DefaultColor),
                "radius", Kwarg(kwargs, "round_radius", OfInt(3)))
      [] cls = "SvgPathVerticalBarsDrawer" ->
            setattr(Base_init(cls, Kwarg(kwargs, "size_ratio", OfInt(1))),
                    "horizontal_shrink",
                    Kwarg(kwargs, "horizontal_shrink", Dec(8, 10)))
      [] cls = "SvgPathHorizontalBarsDrawer" ->
            setattr(Base_init(cls, Kwarg(kwargs, "size_ratio", OfInt(1))),
                    "vertical_shrink",
                    Kwarg(kwargs, "vertical_shrink", Dec(8, 10)))
      [] cls = "SvgPathRoundedDrawer" ->
            setattr(Base_init(cls, Kwarg(kwargs, "size_ratio", OfInt(1))),
                    "radius_ratio",
                    Min(OfInt(1),
                        Max(0, Kwarg(kwargs, "radius_ratio", Dec(5, 10)))))

---------------------------------------------------------------------------
(* The image (the collaborator the drawers write to).  Its unit conversion *)
(* and its per-module loop are not part of svg.py.                         *)

\* img.units(pixels, text): the length in the sink's rendering unit, one
\* unit being img.unit pixels; with text it carries the unit suffix.
units(i, pixels, text) ==
    LET q == DecDivide(pixels, OfInt(i.unit))
    IN  IF text THEN [length |-> q, suffixed |-> TRUE] ELSE q

\* The pixel box the loop assigns to the cell at (row, col).
pixel_box(i, row, col) ==
    LET x == (col + i.border) * i.box_size
        y == (row + i.border) * i.box_size
    IN  <<<<x, y>>, <<x + i.box_size, y + i.box_size>>>>

\* Whether (row, col) lies inside the grid.
is_constrained(m, row, col) ==
    row >= 0 /\ row < len(m) /\ col >= 0 /\ col < len(m[0])

Flag(m, row, col) == is_constrained(m, row, col) /\ m[row][col]

\* The ActiveWithNeighbors the loop passes to a drawer that needs neighbors.
active_with_neighbors(m, row, col) ==
    [NW |-> Flag(m, row - 1, col - 1), N  |-> Flag(m, row - 1, col),
     NE |-> Flag(m, row - 1, col + 1), W  |-> Flag(m, row, col - 1),
     me |-> Flag(m, row, col),         E  |-> Flag(m, row, col + 1),
     SW |-> Flag(m, row + 1, col - 1), S  |-> Flag(m, row + 1, col),
     SE |-> Flag(m, row + 1, col + 1)]

---------------------------------------------------------------------------
(* initialize: the per-drawer derived constants.                           *)

\* BaseSvgQRModuleDrawer.initialize
Base_initialize(d, i) ==
    LET box_delta ==
            DecDivide(DecTimes(OfInt(1) - d.size_ratio, OfInt(i.box_size)),
                      OfInt(2))
        box_size == DecTimes(OfInt(i.box_size), d.size_ratio)
        box_half == DecDivide(box_size, OfInt(2))
    IN  setattr(setattr(setattr(d,
            "box_delta", box_delta), "box_size", box_size),
            "box_half", box_half)

\* The class attribute tag.
tag(cls) == IF cls = "SvgCircleDrawer" THEN "circle" ELSE "rect"

\* SvgQRModuleDrawer.initialize
Element_initialize(d, i) ==
    setattr(Base_initialize(d, i), "tag_qname", tag(d.cls))

\* initialize of each class.
initialize(d, i) ==
    CASE d.cls \in {"SvgSquareDrawer", "SvgGappedSquareDrawer"} ->
            LET e == Element_initialize(d, i)
            IN  setattr(e, "unit_size", units(i, e.box_size, TRUE))
      [] d.cls = "SvgCircleDrawer" ->
            LET e == Element_initialize(d, i)
            IN  setattr(e, "radius", units(i, e.box_half, TRUE))
      [] d.cls \in {"SvgHorizontalBarsDrawer", "SvgVerticalBarsDrawer",
                    "SvgRoundedDrawer"} ->
            Element_initialize(d, i)
      [] d.cls \in {"SvgPathSquareDrawer", "SvgPathGappedSquareDrawer",
                    "SvgPathCircleDrawer"} ->
            Base_initialize(d, i)
      [] d.cls = "SvgPathVerticalBarsDrawer" ->
            LET e == Base_initialize(d, i)
            IN  setattr(e, "h_delta",
                    DecDivide(DecTimes(OfInt(1) - e.horizontal_shrink,
                                       e.box_size), OfInt(2)))
      [] d.cls = "SvgPathHorizontalBarsDrawer" ->
            LET e == Base_initialize(d, i)
            IN  setattr(e, "v_delta",
                    DecDivide(DecTimes(OfInt(1) - e.vertical_shrink,
                                       e.box_size), OfInt(2)))
      [] d.cls = "SvgPathRoundedDrawer" ->
            LET e == Base_initialize(d, i)
            IN  setattr(e, "corner_radius",
                    DecTimes(e.box_half, e.radius_ratio))

---------------------------------------------------------------------------
(* The Coordinate Engine.                                                  *)

coords_nodelta(d, box) ==
    LET x == OfInt(box[1][1])
        y == OfInt(box[1][2])
    IN  [x0 |-> x, y0 |-> y,
         x1 |-> x + d.box_size, y1 |-> y + d.box_size,
         xh |-> x + d.box_half, yh |-> y + d.box_half]

\* BaseSvgQRModuleDrawer.coords
coords(d, box) ==
    LET x == OfInt(box[1][1]) + d.box_delta
        y == OfInt(box[1][2]) + d.box_delta
    IN  [x0 |-> x, y0 |-> y,
         x1 |-> x + d.box_size, y1 |-> y + d.box_size,
         xh |-> x + d.box_half, yh |-> y + d.box_half]

---------------------------------------------------------------------------
(* Shape descriptors.  A path is the sequence of its commands.             *)

M(x, y) == [op |-> "M", args |-> <<x, y>>]
L(x, y) == [op |-> "L", args |-> <<x, y>>]
H(x) == [op |-> "H", args |-> <<x>>]
V(y) == [op |-> "V", args |-> <<y>>]
\* A rx,ry x-axis-rotation large-arc-flag sweep-flag x,y
A(rx, ry, rot, large, sweep, x, y) ==
    [op |-> "A", args |-> <<rx, ry, rot, large, sweep, x, y>>]
\* Q control-point end-point
Q(cx, cy, x, y) == [op |-> "Q", args |-> <<cx, cy, x, y>>]
Z == [op |-> "Z", args |-> <<>>]

fill(d) == <<"rgb", d.color>>

\* ET.Element("path", d=path, fill=...)
PathElement(d, path) == [tag |-> "path", d |-> path, fill |-> fill(d)]

\* SvgSquareDrawer.el
Square_el(d, i, box) ==
    LET c == coords(d, box)
    IN  [tag |-> d.tag_qname,
         x |-> units(i, c.x0, TRUE), y |-> units(i, c.y0, TRUE),
         width |-> d.unit_size, height |-> d.unit_size, fill |-> fill(d)]

\* SvgCircleDrawer.el
Circle_el(d, i, box) ==
    LET c == coords(d, box)
    IN  [tag |-> d.tag_qname,
         cx |-> units(i, c.xh, TRUE), cy |-> units(i, c.yh, TRUE),
         r |-> d.radius, fill |-> fill(d)]

\* SvgPathSquareDrawer.subpath
PathSquare_subpath(d, i, box) ==
    LET c == coords(d, box)
        x0 == units(i, c.x0, FALSE)
        y0 == units(i, c.y0, FALSE)
        x1 == units(i, c.x1, FALSE)
        y1 == units(i, c.y1, FALSE)
    IN  <<M(x0, y0), H(x1), V(y1), H(x0), Z>>

\* SvgPathCircleDrawer.subpath
PathCircle_subpath(d, i, box) ==
    LET c == coords(d, box)
        x0 == units(i, c.x0, FALSE)
        yh == units(i, c.yh, FALSE)
        h == units(i, d.box_half - d.box_delta, FALSE)
        x1 == units(i, c.x1, FALSE)
    IN  <<M(x0, yh), A(h, h, 0, 0, 0, x1, yh), A(h, h, 0, 0, 0, x0, yh), Z>>

---------------------------------------------------------------------------
(* The neighbor-aware element drawers.                                     *)

\* The row taken as the quotient alone, the border not subtracted.
grid_row_noborder(i, box) == IntOfQuotient(box[1][2], i.box_size)

\* row = int(py0 / box_size) - border, col = int(px0 / box_size) - border
grid_row(i, box) == IntOfQuotient(box[1][2], i.box_size) - i.border

grid_col(i, box) == IntOfQuotient(box[1][1], i.box_size) - i.border

\* One call of the nested is_active, with the position it was asked about.
Probe(m, row, col) ==
    [row |-> row, col |-> col, result |-> is_active(m, row, col)]

HorizontalBars_build_flipped(x0, y0, x1, y1, radius, has_west, has_east) ==
    IF ~has_west /\ ~has_east THEN
        <<M(x0 + radius, y0), L(x1 - radius, y0),
          A(radius, radius, 0, 0, 1, x1, y0 + radius), L(x1, y1 - radius),
          A(radius, radius, 0, 0, 1, x1 - radius, y1), L(x0 + radius, y1),
          A(radius, radius, 0, 0, 1, x0, y1 - radius), L(x0, y0 + radius),
          A(radius, radius, 0, 0, 1, x0 + radius, y0), Z>>
    ELSE IF has_west /\ ~has_east THEN
        <<M(x0 + radius, y0), L(x1, y0), L(x1, y1), L(x0 + radius, y1),
          A(radius, radius, 0, 0, 1, x0 + radius, y0), Z>>
    ELSE IF ~has_west /\ has_east THEN
        <<M(x0, y0), L(x1 - radius, y0),
          A(radius, radius, 0, 0, 1, x1 - radius, y1), L(x0, y1), Z>>
    ELSE
        <<M(x0, y0), L(x1, y0), L(x1, y1), L(x0, y1), Z>>

\* SvgHorizontalBarsDrawer.el: the path chosen from the two neighbor flags.
HorizontalBars_build(x0, y0, x1, y1, radius, has_west, has_east) ==
    IF ~has_west /\ ~has_east THEN
        <<M(x0 + radius, y0), L(x1 - radius, y0),
          A(radius, radius, 0, 0, 1, x1, y0 + radius), L(x1, y1 - radius),
          A(radius, radius, 0, 0, 1, x1 - radius, y1), L(x0 + radius, y1),
          A(radius, radius, 0, 0, 1, x0, y1 - radius), L(x0, y0 + radius),
          A(radius, radius, 0, 0, 1, x0 + radius, y0), Z>>
    ELSE IF has_west /\ ~has_east THEN
        <<M(x0, y0), L(x1 - radius, y0),
          A(radius, radius, 0, 0, 1, x1 - radius, y1), L(x0, y1), Z>>
    ELSE IF ~has_west /\ has_east THEN
        <<M(x0 + radius, y0), L(x1, y0), L(x1, y1), L(x0 + radius, y1),
          A(radius, radius, 0, 0, 1, x0 + radius, y0), Z>>
    ELSE
        <<M(x0, y0), L(x1, y0), L(x1, y1), L(x0, y1), Z>>

\* The probes SvgHorizontalBarsDrawer.el makes: west, east.
HorizontalBars_probes(i, m, box) ==
    LET row == grid_row(i, box)
        col == grid_col(i, box)
    IN  <<Probe(m, row, col - 1), Probe(m, row, col + 1)>>

\* SvgHorizontalBarsDrawer.el: the scaled, vertically shrunk rectangle and
\* the radius of the rounded ends.
HorizontalBars_rect(d, box) ==
    LET c == coords(d, box)
        v_delta == DecDivide(DecTimes(OfInt(1) - d.vertical_shrink,
                                      c.y1 - c.y0), OfInt(2))
        x0 == DecDivide(c.x0, SCALE_CORRECTION)
        x1 == DecDivide(c.x1, SCALE_CORRECTION)
        y0 == DecDivide(c.y0 + v_delta, SCALE_CORRECTION)
        y1 == DecDivide(c.y1 - v_delta, SCALE_CORRECTION)
    IN  [x0 |-> x0, y0 |-> y0, x1 |-> x1, y1 |-> y1,
         radius |-> DecDivide(y1 - y0, OfInt(2))]

\* SvgHorizontalBarsDrawer.el
HorizontalBars_el(d, i, m, box) ==
    LET b == HorizontalBars_rect(d, box)
        p == HorizontalBars_probes(i, m, box)
        has_west == p[1].result.value
        has_east == p[2].result.value
    IN  PathElement(d,
            HorizontalBars_build(b.x0, b.y0, b.x1, b.y1, b.radius,
                                 has_west, has_east))

\* The probes SvgVerticalBarsDrawer.el makes: north, south.
VerticalBars_probes(i, m, box) ==
    LET row == grid_row(i, box)
        col == grid_col(i, box)
    IN  <<Probe(m, row - 1, col), Probe(m, row + 1, col)>>

\* SvgVerticalBarsDrawer.el: the path chosen from the two neighbor flags.
VerticalBars_build(x0, y0, x1, y1, radius, has_north, has_south) ==
    IF ~has_north /\ ~has_south THEN
        <<M(x0, y0 + radius), A(radius, radius, 0, 0, 1, x1, y0 + radius),
          L(x1, y1 - radius), A(radius, radius, 0, 0, 1, x0, y1 - radius), Z>>
    ELSE IF has_north /\ ~has_south THEN
        <<M(x0, y0), L(x1, y0), L(x1, y1 - radius),
          A(radius, radius, 0, 0, 1, x0, y1 - radius), Z>>
    ELSE IF ~has_north /\ has_south THEN
        <<M(x0, y0 + radius), A(radius, radius, 0, 0, 1, x1, y0 + radius),
          L(x1, y1), L(x0, y1), Z>>
    ELSE
        <<M(x0, y0), L(x1, y0), L(x1, y1), L(x0, y1), Z>>

\* SvgVerticalBarsDrawer.el
VerticalBars_el(d, i, m, box) ==
    LET c == coords(d, box)
        h_delta == DecDivide(DecTimes(OfInt(1) - d.horizontal_shrink,
                                      c.x1 - c.x0), OfInt(2))
        x0 == DecDivide(c.x0 + h_delta, SCALE_CORRECTION)
        x1 == DecDivide(c.x1 - h_delta, SCALE_CORRECTION)
        y0 == DecDivide(c.y0, SCALE_CORRECTION)
        y1 == DecDivide(c.y1, SCALE_CORRECTION)
        radius == DecDivide(x1 - x0, OfInt(2))
        p == VerticalBars_probes(i, m, box)
        has_north == p[1].result.value
        has_south == p[2].result.value
    IN  PathElement(d,
            VerticalBars_build(x0, y0, x1, y1, radius, has_north, has_south))

\* The corners visited top-left, top-right, bottom-left, bottom-right.
build_dynamic_path_crossed(d, top_left, top_right, bottom_right, bottom_left, round_tl, round_tr, round_br, round_bl) ==
    (IF round_tl
     THEN <<M(top_left[1], top_left[2] + d.radius),
            Q(top_left[1], top_left[2], top_left[1] + d.radius, top_left[2])>>
     ELSE <<M(top_left[1], top_left[2])>>)
    \o
    (IF round_tr
     THEN <<L(top_right[1] - d.radius, top_right[2]),
            Q(top_right[1], top_right[2],
              top_right[1], top_right[2] + d.radius)>>
     ELSE <<L(top_right[1], top_right[2])>>)
    \o
    (IF round_bl
     THEN <<L(bottom_left[1] + d.radius, bottom_left[2]),
            Q(bottom_left[1], bottom_left[2],
              bottom_left[1], bottom_left[2] - d.radius)>>
     ELSE <<L(bottom_left[1], bottom_left[2])>>)
    \o
    (IF round_br
     THEN <<L(bottom_right[1], bottom_right[2] - d.radius),
            Q(bottom_right[1], bottom_right[2],
              bottom_right[1] - d.radius, bottom_right[2])>>
     ELSE <<L(bottom_right[1], bottom_right[2])>>)
    \o <<Z>>

\* SvgRoundedDrawer.build_dynamic_path; each corner point is <<x, y>>.
build_dynamic_path(d, top_left, top_right, bottom_right, bottom_left, round_tl, round_tr, round_br, round_bl) ==
    (IF round_tl
     THEN <<M(top_left[1], top_left[2] + d.radius),
            Q(top_left[1], top_left[2], top_left[1] + d.radius, top_left[2])>>
     ELSE <<M(top_left[1], top_left[2])>>)
    \o
    (IF round_tr
     THEN <<L(top_right[1] - d.radius, top_right[2]),
            Q(top_right[1], top_right[2],
              top_right[1], top_right[2] + d.radius)>>
     ELSE <<L(top_right[1], top_right[2])>>)
    \o
    (IF round_br
     THEN <<L(bottom_right[1], bottom_right[2] - d.radius),
            Q(bottom_right[1], bottom_right[2],
              bottom_right[1] - d.radius, bottom_right[2])>>
     ELSE <<L(bottom_right[1], bottom_right[2])>>)
    \o
    (IF round_bl
     THEN <<L(bottom_left[1] + d.radius, bottom_left[2]),
            Q(bottom_left[1], bottom_left[2],
              bottom_left[1], bottom_left[2] - d.radius)>>
     ELSE <<L(bottom_left[1], bottom_left[2])>>)
    \o <<Z>>

\* The probes SvgRoundedDrawer.el makes: n, ne, e, se, s, sw, w, nw.
Rounded_probes(i, m, box) ==
    LET row == grid_row(i, box)
        col == grid_col(i, box)
    IN  <<Probe(m, row - 1, col), Probe(m, row - 1, col + 1),
          Probe(m, row, col + 1), Probe(m, row + 1, col + 1),
          Probe(m, row + 1, col), Probe(m, row + 1, col - 1),
          Probe(m, row, col - 1), Probe(m, row - 1, col - 1)>>

Rounded_flags_either(n, e, s, w) ==
    [tl |-> ~(n /\ w), tr |-> ~(n /\ e), br |-> ~(s /\ e), bl |-> ~(s /\ w)]

\* SvgRoundedDrawer.el: the four round flags from the orthogonal neighbors.
Rounded_flags(n, e, s, w) ==
    [tl |-> ~(n \/ w), tr |-> ~(n \/ e), br |-> ~(s \/ e), bl |-> ~(s \/ w)]

\* SvgRoundedDrawer.el
Rounded_el(d, i, m, box) ==
    LET c == coords(d, box)
        top_left == <<DecDivide(c.x0, SCALE_CORRECTION),
                      DecDivide(c.y0, SCALE_CORRECTION)>>
        bottom_right == <<DecDivide(c.x1, SCALE_CORRECTION),
                          DecDivide(c.y1, SCALE_CORRECTION)>>
        top_right == <<DecDivide(c.x1, SCALE_CORRECTION),
                       DecDivide(c.y0, SCALE_CORRECTION)>>
        bottom_left == <<DecDivide(c.x0, SCALE_CORRECTION),
                         DecDivide(c.y1, SCALE_CORRECTION)>>
        p == Rounded_probes(i, m, box)
        f == Rounded_flags(p[1].result.value, p[3].result.value,
                           p[5].result.value, p[7].result.value)
    IN  PathElement(d,
            build_dynamic_path(d, top_left, top_right, bottom_right,
                               bottom_left, f.tl, f.tr, f.br, f.bl))

---------------------------------------------------------------------------
(* The neighbor-aware path drawers.  They read the flags that drawrect     *)
(* stored in self._neighbors.                                              *)

\* getattr(self._neighbors, name, False) if hasattr(self, '_neighbors')
\* else False
stored_flag(d, name) ==
    IF hasattr(d, "_neighbors") THEN getattr(d["_neighbors"], name, FALSE)
    ELSE FALSE

\* SvgPathVerticalBarsDrawer.subpath
PathVerticalBars_subpath(d, i, box) ==
    LET c == coords(d, box)
        x0 == units(i, c.x0 + d.h_delta, FALSE)
        x1 == units(i, c.x1 - d.h_delta, FALSE)
        y0 == units(i, c.y0, FALSE)
        y1 == units(i, c.y1, FALSE)
        r == units(i, DecDivide(c.x1 - c.x0 - 2 * d.h_delta, OfInt(2)), FALSE)
        has_top == stored_flag(d, "N")
        has_bottom == stored_flag(d, "S")
    IN  IF ~has_top /\ ~has_bottom THEN
            <<M(x0, y0 + r), A(r, r, 0, 0, 1, x1, y0 + r), V(y1 - r),
              A(r, r, 0, 0, 1, x0, y1 - r), Z>>
        ELSE IF has_top /\ ~has_bottom THEN
            <<M(x0, y0), H(x1), V(y1 - r), A(r, r, 0, 0, 1, x0, y1 - r), Z>>
        ELSE IF ~has_top /\ has_bottom THEN
            <<M(x0, y0 + r), A(r, r, 0, 0, 1, x1, y0 + r), V(y1), H(x0), Z>>
        ELSE
            <<M(x0, y0), H(x1), V(y1), H(x0), Z>>

\* SvgPathHorizontalBarsDrawer.subpath: the path chosen from the two flags.
PathHorizontalBars_build(x0, y0, x1, y1, r, has_left, has_right) ==
    IF ~has_left /\ ~has_right THEN
        <<M(x0 + r, y0), H(x1 - r), A(r, r, 0, 0, 1, x1, y1), H(x0 + r),
          A(r, r, 0, 0, 1, x0, y0), Z>>
    ELSE IF has_left /\ ~has_right THEN
        <<M(x0, y0), H(x1 - r), A(r, r, 0, 0, 1, x1, y1), H(x0), Z>>
    ELSE IF ~has_left /\ has_right THEN
        <<M(x0 + r, y0), H(x1), V(y1), H(x0 + r),
          A(r, r, 0, 0, 1, x0, y0), Z>>
    ELSE
        <<M(x0, y0), H(x1), V(y1), H(x0), Z>>

\* SvgPathHorizontalBarsDrawer.subpath: the vertically shrunk rectangle in
\* rendering units and the radius of the rounded ends.
PathHorizontalBars_rect(d, i, box) ==
    LET c == coords(d, box)
    IN  [x0 |-> units(i, c.x0, FALSE),
         x1 |-> units(i, c.x1, FALSE),
         y0 |-> units(i, c.y0 + d.v_delta, FALSE),
         y1 |-> units(i, c.y1 - d.v_delta, FALSE),
         radius |-> units(i, DecDivide(c.y1 - c.y0 - 2 * d.v_delta, OfInt(2)),
                          FALSE)]

\* SvgPathHorizontalBarsDrawer.subpath
PathHorizontalBars_subpath(d, i, box) ==
    LET b == PathHorizontalBars_rect(d, i, box)
    IN  PathHorizontalBars_build(b.x0, b.y0, b.x1, b.y1, b.radius,
                                 stored_flag(d, "W"), stored_flag(d, "E"))

\* SvgPathRoundedDrawer.subpath: which corners to round.
PathRounded_corners(n, e, s, w) ==
    [nw |-> ~(w \/ n), ne |-> ~(n \/ e), se |-> ~(e \/ s), sw |-> ~(s \/ w)]

\* SvgPathRoundedDrawer.subpath.  The test r == "0" compares a Decimal with
\* a str and is False for every r.
PathRounded_subpath(d, i, box) ==
    LET c == coords(d, box)
        x0 == units(i, c.x0, FALSE)
        y0 == units(i, c.y0, FALSE)
        x1 == units(i, c.x1, FALSE)
        y1 == units(i, c.y1, FALSE)
        r == units(i, d.corner_radius, FALSE)
        k == PathRounded_corners(stored_flag(d, "N"), stored_flag(d, "E"),
                                 stored_flag(d, "S"), stored_flag(d, "W"))
        r_is_str_0 == FALSE
    IN  IF ~(k.nw \/ k.ne \/ k.se \/ k.sw) \/ r_is_str_0 THEN
            <<M(x0, y0), H(x1), V(y1), H(x0), Z>>
        ELSE
            <<M(x0, IF k.nw THEN y0 + r ELSE y0)>>
            \o (IF k.nw
                THEN <<A(r, r, 0, 0, 1, x0 + r, y0),
                       H(IF k.ne THEN x1 - r ELSE x1)>>
                ELSE <<H(IF k.ne THEN x1 - r ELSE x1)>>)
            \o (IF k.ne
                THEN <<A(r, r, 0, 0, 1, x1, y0 + r),
                       V(IF k.se THEN y1 - r ELSE y1)>>
                ELSE <<V(IF k.se THEN y1 - r ELSE y1)>>)
            \o (IF k.se
                THEN <<A(r, r, 0, 0, 1, x1 - r, y1),
                       H(IF k.sw THEN x0 + r ELSE x0)>>
                ELSE <<H(IF k.sw THEN x0 + r ELSE x0)>>)
            \o (IF k.sw THEN <<A(r, r, 0, 0, 1, x0, y1 - r)>> ELSE <<>>)
            \o <<Z>>

---------------------------------------------------------------------------
(* Dispatch of the abstract methods el and subpath.                        *)

\* self.el(box)
el(d, i, m, box) ==
    CASE d.cls \in {"SvgSquareDrawer", "SvgGappedSquareDrawer"} ->
            Square_el(d, i, box)
      [] d.cls = "SvgCircleDrawer" -> Circle_el(d, i, box)
      [] d.cls = "SvgHorizontalBarsDrawer" -> HorizontalBars_el(d, i, m, box)
      [] d.cls = "SvgVerticalBarsDrawer" -> VerticalBars_el(d, i, m, box)
      [] d.cls = "SvgRoundedDrawer" -> Rounded_el(d, i, m, box)

\* The probes self.el(box) makes.
el_probes(d, i, m, box) ==
    CASE d.cls = "SvgHorizontalBarsDrawer" -> HorizontalBars_probes(i, m, box)
      [] d.cls = "SvgVerticalBarsDrawer" -> VerticalBars_probes(i, m, box)
      [] d.cls = "SvgRoundedDrawer" -> Rounded_probes(i, m, box)
      [] OTHER -> <<>>

\* self.subpath(box)
subpath(d, i, box) ==
    CASE d.cls \in {"SvgPathSquareDrawer", "SvgPathGappedSquareDrawer"} ->
            PathSquare_subpath(d, i, box)
      [] d.cls = "SvgPathCircleDrawer" -> PathCircle_subpath(d, i, box)
      [] d.cls = "SvgPathVerticalBarsDrawer" ->
            PathVerticalBars_subpath(d, i, box)
      [] d.cls = "SvgPathHorizontalBarsDrawer" ->
            PathHorizontalBars_subpath(d, i, box)
      [] d.cls = "SvgPathRoundedDrawer" -> PathRounded_subpath(d, i, box)

---------------------------------------------------------------------------
(* drawrect.  Each is one call: it either returns at once (inactive        *)
(* module) or builds the descriptor and appends it to the sink.            *)

\* A drawrect that would put the new element in front of the list.
SvgQRModuleDrawer_drawrect_prepend(box, a) ==
    IF ~bool(a)
    THEN drawer' = drawer /\ img' = img /\ probes' = <<>>
    ELSE /\ img' = [img EXCEPT
                      !["_img"] = <<el(drawer, img, modules, box)>> \o @]
         /\ probes' = el_probes(drawer, img, modules, box)
         /\ drawer' = drawer

\* SvgQRModuleDrawer.drawrect
SvgQRModuleDrawer_drawrect(box, a) ==
    IF ~bool(a)
    THEN drawer' = drawer /\ img' = img /\ probes' = <<>>
    ELSE /\ img' = [img EXCEPT
                      !["_img"] = Append(@, el(drawer, img, modules, box))]
         /\ probes' = el_probes(drawer, img, modules, box)
         /\ drawer' = drawer

\* SvgPathQRModuleDrawer.drawrect
SvgPathQRModuleDrawer_drawrect(box, a) ==
    IF ~bool(a)
    THEN drawer' = drawer /\ img' = img /\ probes' = <<>>
    ELSE /\ img' = [img EXCEPT
                      !["_subpaths"] = Append(@, subpath(drawer, img, box))]
         /\ probes' = <<>>
         /\ drawer' = drawer

\* SvgPathVerticalBarsDrawer.drawrect
PathVerticalBars_drawrect(box, a) ==
    IF ~bool(a)
    THEN drawer' = drawer /\ img' = img /\ probes' = <<>>
    ELSE /\ drawer' = setattr(drawer, "_neighbors", a)
         /\ img' = [img EXCEPT
                      !["_subpaths"] = Append(@, subpath(drawer', img, box))]
         /\ probes' = <<>>

\* A drawrect that would store the neighbor flags before looking at the
\* module.
PathHorizontalBars_drawrect_store_first(box, a) ==
    /\ drawer' = setattr(drawer, "_neighbors", a)
    /\ IF ~bool(a)
       THEN img' = img
       ELSE img' = [img EXCEPT
                      !["_subpaths"] = Append(@, subpath(drawer', img, box))]
    /\ probes' = <<>>

\* SvgPathHorizontalBarsDrawer.drawrect
PathHorizontalBars_drawrect(box, a) ==
    IF ~bool(a)
    THEN drawer' = drawer /\ img' = img /\ probes' = <<>>
    ELSE /\ drawer' = setattr(drawer, "_neighbors", a)
         /\ img' = [img EXCEPT
                      !["_subpaths"] = Append(@, subpath(drawer', img, box))]
         /\ probes' = <<>>

\* SvgPathRoundedDrawer.drawrect
PathRounded_drawrect(box, a) ==
    IF ~bool(a)
    THEN drawer' = drawer /\ img' = img /\ probes' = <<>>
    ELSE /\ drawer' = setattr(drawer, "_neighbors", a)
         /\ img' = [img EXCEPT
                      !["_subpaths"] = Append(@, subpath(drawer', img, box))]
         /\ probes' = <<>>

---------------------------------------------------------------------------
(* The inputs.                                                             *)

Cells == (0 .. GridRows - 1) \X (0 .. GridCols - 1)

\* The grid whose active modules are the cells of S.
GridOf(S) ==
    [row \in 0 .. GridRows - 1 |-> [col \in 0 .. GridCols - 1 |->
        <<row, col>> \in S]]

Center == <<GridRows \div 2, GridCols \div 2>>

\* The cells a drawer can probe from cell f: f and its eight neighbors.
Neighborhood(f) ==
    {c \in Cells : c[1] - f[1] \in {-1, 0, 1} /\ c[2] - f[2] \in {-1, 0, 1}}

\* Every grid whose active modules lie in the neighborhood of the center
\* cell, and the grid with every module active.
Grids == {GridOf(S) : S \in SUBSET Neighborhood(Center)} \cup {GridOf(Cells)}

\* The grids on which every style and image configuration is tried: all
\* modules active, one isolated module, three modules around a bend.  On
\* the other grids the drawers run with their default style.
StyleGrids ==
    {GridOf(Cells), GridOf({Center}),
     GridOf({<<Center[1] - 1, Center[2] - 1>>, <<Center[1] - 1, Center[2]>>,
             Center})}

SizeRatios ==
    {Dec(0, 1), Dec(1, 4), Dec(1, 2), Dec(3, 4), Dec(1, 1), Dec(3, 2)}

Shrinks == {Dec(-1, 2), Dec(1, 2), Dec(8, 10), Dec(1, 1)}

RoundRadii == {OfInt(-1), OfInt(0), OfInt(1), OfInt(3)}

RadiusRatios == {Dec(-1, 2), Dec(0, 1), Dec(1, 2), Dec(1, 1), Dec(2, 1)}

\* The keyword arguments a caller passes to the constructor of cls.
Kwargs(cls) ==
    CASE cls \in {"SvgHorizontalBarsDrawer", "SvgPathHorizontalBarsDrawer"} ->
            {[size_ratio |-> s, vertical_shrink |-> v] :
                s \in SizeRatios, v \in Shrinks}
      [] cls \in {"SvgVerticalBarsDrawer", "SvgPathVerticalBarsDrawer"} ->
            {[size_ratio |-> s, horizontal_shrink |-> v] :
                s \in SizeRatios, v \in Shrinks}
      [] cls = "SvgRoundedDrawer" ->
            {[size_ratio |-> s, round_radius |-> r] :
                s \in SizeRatios, r \in RoundRadii}
      [] cls = "SvgPathRoundedDrawer" ->
            {[size_ratio |-> s, radius_ratio |-> r] :
                s \in SizeRatios, r \in RadiusRatios}
      [] OTHER -> {[size_ratio |-> s] : s \in SizeRatios}

NewImage(box_size, border, unit) ==
    [box_size |-> box_size, border |-> border, unit |-> unit,
     _img |-> <<>>, _subpaths |-> <<>>]

DefaultImage == NewImage(10, 4, 10)

Images ==
    {NewImage(4, 0, 1), NewImage(4, 1, 10), NewImage(10, 0, 10),
     NewImage(10, 1, 1)}

\* The grid decides only what a neighbor-aware drawer draws: the other
\* classes run on the style grids.
ClassesFor ==
    IF modules \in StyleGrids THEN Classes
    ELSE {cls \in Classes : needs_neighbors(cls)}

KwargsFor(cls) ==
    IF modules \in StyleGrids THEN Kwargs(cls) \cup {NoObject} ELSE {NoObject}

ImagesFor ==
    IF modules \in StyleGrids THEN Images \cup {DefaultImage}
    ELSE {DefaultImage}

---------------------------------------------------------------------------
(* The state machine.                                                      *)

Threads == 1 .. NumThreads

\* A caller that is not inside drawrect.
Idle == [pc |-> "idle"]

Init ==
    /\ modules \in Grids
    /\ phase = "new"
    /\ drawer = NoObject
    /\ img = NoObject
    /\ pos = 0
    /\ calls = <<>>
    /\ probes = <<>>
    /\ inflight = [t \in Threads |-> Idle]

\* drawer = Cls(**kwargs)
Construct ==
    /\ phase = "new"
    /\ \E cls \in ClassesFor : \E kwargs \in KwargsFor(cls) :
          drawer' = init(cls, kwargs)
    /\ phase' = "constructed"
    /\ UNCHANGED <<modules, img, pos, calls, probes, inflight>>

\* drawer.initialize(img)
Initialize ==
    /\ phase = "constructed"
    /\ \E i \in ImagesFor :
          /\ img' = i
          /\ drawer' = initialize(drawer, i)
    /\ phase' = "initialized"
    /\ UNCHANGED <<modules, pos, calls, probes, inflight>>

CurrentRow == pos \div len(modules[0])

CurrentCol == pos % len(modules[0])

CurrentBox == pixel_box(img, CurrentRow, CurrentCol)

\* What the loop passes as is_active for the current cell.
CurrentArg ==
    IF needs_neighbors(drawer.cls)
    THEN active_with_neighbors(modules, CurrentRow, CurrentCol)
    ELSE PlainBool(modules[CurrentRow][CurrentCol])

\* One iteration of the per-module loop, around the drawrect call.
Visit ==
    /\ phase = "initialized"
    /\ pos < len(modules) * len(modules[0])
    /\ pos' = pos + 1
    /\ calls' = Append(calls, [row |-> CurrentRow, col |-> CurrentCol,
                                box |-> CurrentBox, is_active |-> CurrentArg])
    /\ UNCHANGED <<modules, phase, inflight>>

DrawElement ==
    /\ Visit
    /\ drawer.cls \in ElementClasses
    /\ SvgQRModuleDrawer_drawrect(CurrentBox, CurrentArg)

DrawPath ==
    /\ Visit
    /\ drawer.cls \in PathClasses \ StoresNeighbors
    /\ SvgPathQRModuleDrawer_drawrect(CurrentBox, CurrentArg)

DrawPathVerticalBars ==
    /\ Visit
    /\ drawer.cls = "SvgPathVerticalBarsDrawer"
    /\ PathVerticalBars_drawrect(CurrentBox, CurrentArg)

DrawPathHorizontalBars ==
    /\ Visit
    /\ drawer.cls = "SvgPathHorizontalBarsDrawer"
    /\ PathHorizontalBars_drawrect(CurrentBox, CurrentArg)

DrawPathRounded ==
    /\ Visit
    /\ drawer.cls = "SvgPathRoundedDrawer"
    /\ PathRounded_drawrect(CurrentBox, CurrentArg)

Next ==
    \/ Construct
    \/ Initialize
    \/ DrawElement
    \/ DrawPath
    \/ DrawPathVerticalBars
    \/ DrawPathHorizontalBars
    \/ DrawPathRounded

Spec == Init /\ [][Next]_vars

---------------------------------------------------------------------------
(* Concurrent callers.  drawrect takes no lock, so when several callers    *)
(* run it on one drawer its statements interleave.  A call goes through    *)
(* the statements of its drawrect body: the test of is_active (on the      *)
(* caller's own arguments), for the path drawers that keep the neighbor    *)
(* flags the assignment self._neighbors = is_active, the evaluation of     *)
(* self.el(box) or self.subpath(box), and the append to the sink.  Here    *)
(* calls records a call when it returns, so the k-th entry of the sink was *)
(* appended by the k-th recorded call with an active module.               *)

\* The grids the concurrent callers draw: those with few active modules.
ConcurrentGrids == StyleGrids \ {GridOf(Cells)}

ConcurrentInit ==
    /\ modules \in ConcurrentGrids
    /\ phase = "new"
    /\ drawer = NoObject
    /\ img = NoObject
    /\ pos = 0
    /\ calls = <<>>
    /\ probes = <<>>
    /\ inflight = [t \in Threads |-> Idle]

\* drawer = Cls()
ConstructDefault ==
    /\ phase = "new"
    /\ \E cls \in Classes : drawer' = init(cls, NoObject)
    /\ phase' = "constructed"
    /\ UNCHANGED <<modules, img, pos, calls, probes, inflight>>

\* drawer.initialize(img)
InitializeDefault ==
    /\ phase = "constructed"
    /\ img' = DefaultImage
    /\ drawer' = initialize(drawer, DefaultImage)
    /\ phase' = "initialized"
    /\ UNCHANGED <<modules, pos, calls, probes, inflight>>

\* The record of a call in calls.
CallRecord(c) ==
    [row |-> c.row, col |-> c.col, box |-> c.box, is_active |-> c.is_active]

\* Caller t enters drawrect for the next cell: "if not is_active: return".
EnterDrawrect(t) ==
    /\ phase = "initialized"
    /\ inflight[t].pc = "idle"
    /\ pos < len(modules) * len(modules[0])
    /\ pos' = pos + 1
    /\ LET c == [row |-> CurrentRow, col |-> CurrentCol,
                 box |-> CurrentBox, is_active |-> CurrentArg]
       IN  IF ~bool(CurrentArg)
           THEN /\ calls' = Append(calls, c)
                /\ inflight' = inflight
           ELSE /\ calls' = calls
                /\ inflight' =
                     [inflight EXCEPT ![t] =
                        [pc |-> IF drawer.cls \in StoresNeighbors
                                THEN "store" ELSE "build"] @@ c]
    /\ UNCHANGED <<modules, phase, drawer, img, probes>>

\* self._neighbors = is_active
StoreNeighbors(t) ==
    /\ inflight[t].pc = "store"
    /\ drawer' = setattr(drawer, "_neighbors", inflight[t].is_active)
    /\ inflight' = [inflight EXCEPT ![t].pc = "build"]
    /\ UNCHANGED <<modules, phase, img, pos, calls, probes>>

\* The argument of append is evaluated: self.el(box) / self.subpath(box).
BuildDescriptor(t) ==
    /\ inflight[t].pc = "build"
    /\ LET built == IF drawer.cls \in ElementClasses
                    THEN el(drawer, img, modules, inflight[t].box)
                    ELSE subpath(drawer, img, inflight[t].box)
       IN  inflight' = [inflight EXCEPT
                          ![t] = [pc |-> "append", built |-> built]
                                 @@ CallRecord(inflight[t])]
    /\ probes' = IF drawer.cls \in ElementClasses
                 THEN el_probes(drawer, img, modules, inflight[t].box)
                 ELSE <<>>
    /\ UNCHANGED <<modules, phase, drawer, img, pos, calls>>

\* self.img._img.append(...) / self.img._subpaths.append(...), and return.
AppendToSink(t) ==
    /\ inflight[t].pc = "append"
    /\ img' = IF drawer.cls \in ElementClasses
              THEN [img EXCEPT !["_img"] = Append(@, inflight[t].built)]
              ELSE [img EXCEPT !["_subpaths"] = Append(@, inflight[t].built)]
    /\ calls' = Append(calls, CallRecord(inflight[t]))
    /\ inflight' = [inflight EXCEPT ![t] = Idle]
    /\ UNCHANGED <<modules, phase, drawer, pos, probes>>

ConcurrentNext ==
    \/ ConstructDefault
    \/ InitializeDefault
    \/ \E t \in Threads : EnterDrawrect(t)
    \/ \E t \in Threads : StoreNeighbors(t)
    \/ \E t \in Threads : BuildDescriptor(t)
    \/ \E t \in Threads : AppendToSink(t)

ConcurrentSpec == ConcurrentInit /\ [][ConcurrentNext]_vars

---------------------------------------------------------------------------
(* build_dynamic_path as a function of its arguments: a constructed        *)
(* SvgRoundedDrawer, called with any rectangle and any round flags.  calls *)
(* holds the arguments and the returned path of the latest call.           *)

\* Corner coordinates of the rectangles passed to build_dynamic_path.
CornerOrigins == {OfInt(0), Dec(3, 2)}

CornerExtents == {OfInt(2), Dec(15, 4)}

BuildPathInit ==
    /\ modules = GridOf(Cells)
    /\ phase = "constructed"
    /\ drawer \in {init("SvgRoundedDrawer",
                         [size_ratio |-> OfInt(1), round_radius |-> r]) :
                    r \in RoundRadii}
    /\ img = NoObject
    /\ pos = 0
    /\ calls = <<>>
    /\ probes = <<>>
    /\ inflight = [t \in Threads |-> Idle]

\* d = self.build_dynamic_path(top_left, top_right, bottom_right,
\*                             bottom_left, round_tl, round_tr, round_br,
\*                             round_bl)
CallBuildDynamicPath ==
    /\ phase = "constructed"
    /\ \E x0 \in CornerOrigins, y0 \in CornerOrigins :
       \E w \in CornerExtents, h \in CornerExtents :
       \E tl \in BOOLEAN, tr \in BOOLEAN, br \in BOOLEAN, bl \in BOOLEAN :
          calls' = <<[top_left |-> <<x0, y0>>,
                      top_right |-> <<x0 + w, y0>>,
                      bottom_right |-> <<x0 + w, y0 + h>>,
                      bottom_left |-> <<x0, y0 + h>>,
                      round_tl |-> tl, round_tr |-> tr,
                      round_br |-> br, round_bl |-> bl,
                      returned |->
                          build_dynamic_path(drawer,
                              <<x0, y0>>, <<x0 + w, y0>>,
                              <<x0 + w, y0 + h>>, <<x0, y0 + h>>,
                              tl, tr, br, bl)]>>
    /\ UNCHANGED <<modules, phase, drawer, img, pos, probes, inflight>>

BuildPathNext == CallBuildDynamicPath

BuildPathSpec == BuildPathInit /\ [][BuildPathNext]_vars

---------------------------------------------------------------------------
(* Vocabulary of the properties.                                           *)

\* The output sink of the drawer in use.
Sink ==
    IF drawer.cls \in ElementClasses THEN img["_img"] ELSE img["_subpaths"]

\* The drawrect calls made with an active module, in call order.
ActiveCalls == SelectSeq(calls, LAMBDA c : bool(c.is_active))

\* The path commands of a sink entry (of a drawer that emits paths).
PathOf(e) == IF drawer.cls \in ElementClasses THEN e.d ELSE e

\* The segments a path draws, by the meaning of the path commands: each is a
\* straight line, an elliptical arc or a quadratic curve from one point to
\* the next; Z is the straight line back to the start of the subpath.
Segment(kind, from, to, ctrl, radius, sweep) ==
    [kind |-> kind, from |-> from, to |-> to, ctrl |-> ctrl,
     radius |-> radius, sweep |-> sweep]

RECURSIVE Walk(_, _, _, _)
Walk(path, k, cur, start) ==
    IF k > Len(path) THEN <<>>
    ELSE LET c == path[k]
             a == c.args
         IN  CASE c.op = "M" -> Walk(path, k + 1, <<a[1], a[2]>>, <<a[1], a[2]>>)
               [] c.op = "L" ->
                    <<Segment("line", cur, <<a[1], a[2]>>, cur, 0, 0)>>
                    \o Walk(path, k + 1, <<a[1], a[2]>>, start)
               [] c.op = "H" ->
                    <<Segment("line", cur, <<a[1], cur[2]>>, cur, 0, 0)>>
                    \o Walk(path, k + 1, <<a[1], cur[2]>>, start)
               [] c.op = "V" ->
                    <<Segment("line", cur, <<cur[1], a[1]>>, cur, 0, 0)>>
                    \o Walk(path, k + 1, <<cur[1], a[1]>>, start)
               [] c.op = "A" ->
                    <<Segment("arc", cur, <<a[6], a[7]>>, cur, a[1], a[5])>>
                    \o Walk(path, k + 1, <<a[6], a[7]>>, start)
               [] c.op = "Q" ->
                    <<Segment("quad", cur, <<a[3], a[4]>>, <<a[1], a[2]>>,
                              0, 0)>>
                    \o Walk(path, k + 1, <<a[3], a[4]>>, start)
               [] c.op = "Z" ->
                    <<Segment("line", cur, start, cur, 0, 0)>>
                    \o Walk(path, k + 1, start, start)

Segments(path) == Walk(path, 1, <<0, 0>>, <<0, 0>>)

Curves(path) ==
    LET segs == Segments(path)
    IN  {segs[k] : k \in {j \in DOMAIN segs : segs[j].kind # "line"}}

\* The style parameters are well formed: size ratio in (0, 1], no negative
\* shrink fraction, no negative radius.
WellFormed(d) ==
    /\ 0 < d.size_ratio /\ d.size_ratio <= OfInt(1)
    /\ hasattr(d, "vertical_shrink") => d.vertical_shrink >= 0
    /\ hasattr(d, "horizontal_shrink") => d.horizontal_shrink >= 0
    /\ d.cls = "SvgRoundedDrawer" => d.radius >= 0

---------------------------------------------------------------------------
(* C1.  coords(box) for a size ratio r in (0, 1].                          *)

\* The properties of C1 that do not concern strictness, for one box: the
\* rectangle lies in the cell, has the margin (1 - r) * cell_size / 2 on all
\* four sides, x0 < x1, y0 < y1, and (xh, yh) is the midpoint.
C1_Centered(box) ==
    LET c == coords(drawer, box)
        cell == img.box_size
        twice_margin == (OfInt(1) - drawer.size_ratio) * cell
    IN  /\ OfInt(box[1][1]) <= c.x0 /\ c.x1 <= OfInt(box[1][1] + cell)
        /\ OfInt(box[1][2]) <= c.y0 /\ c.y1 <= OfInt(box[1][2] + cell)
        /\ 2 * (c.x0 - OfInt(box[1][1])) = twice_margin
        /\ 2 * (c.y0 - OfInt(box[1][2])) = twice_margin
        /\ 2 * (OfInt(box[1][1] + cell) - c.x1) = twice_margin
        /\ 2 * (OfInt(box[1][2] + cell) - c.y1) = twice_margin
        /\ c.x0 < c.x1 /\ c.y0 < c.y1
        /\ 2 * c.xh = c.x0 + c.x1 /\ 2 * c.yh = c.y0 + c.y1

\* The rectangle touches no side of the cell.
C1_Strict(box) ==
    LET c == coords(drawer, box)
        cell == img.box_size
    IN  /\ OfInt(box[1][1]) < c.x0 /\ c.x1 < OfInt(box[1][1] + cell)
        /\ OfInt(box[1][2]) < c.y0 /\ c.y1 < OfInt(box[1][2] + cell)

C1_Applies ==
    /\ phase = "initialized"
    /\ 0 < drawer.size_ratio /\ drawer.size_ratio <= OfInt(1)

\* C1 as stated: for every module box and every size ratio r in (0, 1],
\* coords(box) is strictly contained within the cell, centered with margin
\* (1 - r) * cell_size / 2 on all four sides, x0 < x1, y0 < y1, and (xh, yh)
\* is the midpoint of the corners.
C1_StrictlyContainedAndCentered ==
    C1_Applies =>
        \A k \in DOMAIN calls :
            C1_Centered(calls[k].box) /\ C1_Strict(calls[k].box)

\* C1 as amended: for every module box and every size ratio r in (0, 1],
\* coords(box) is contained within the cell (strictly when r < 1; for r = 1
\* it is the whole cell), centered with margin (1 - r) * cell_size / 2 on all
\* four sides, x0 < x1, y0 < y1, and (xh, yh) is the midpoint of the corners.
C1_ContainedAndCentered ==
    C1_Applies =>
        \A k \in DOMAIN calls :
            /\ C1_Centered(calls[k].box)
            /\ drawer.size_ratio < OfInt(1) => C1_Strict(calls[k].box)

\* A box has been handed to a drawer whose size ratio leaves a margin.
C1_Witness ==
    /\ C1_Applies
    /\ drawer.size_ratio < OfInt(1)
    /\ Len(calls) > 1
    /\ coords(drawer, calls[2].box).x0 > OfInt(calls[2].box[1][1])

---------------------------------------------------------------------------
(* C2.  The corner rule of the rounded block drawers.                      *)

RoundedClasses == {"SvgRoundedDrawer", "SvgPathRoundedDrawer"}

\* The rectangle a rounded drawer draws the module in, in output coordinates.
Rounded_rect(d, i, box) ==
    LET c == coords(d, box)
    IN  IF d.cls = "SvgRoundedDrawer"
        THEN [x0 |-> DecDivide(c.x0, SCALE_CORRECTION),
              y0 |-> DecDivide(c.y0, SCALE_CORRECTION),
              x1 |-> DecDivide(c.x1, SCALE_CORRECTION),
              y1 |-> DecDivide(c.y1, SCALE_CORRECTION)]
        ELSE [x0 |-> units(i, c.x0, FALSE), y0 |-> units(i, c.y0, FALSE),
              x1 |-> units(i, c.x1, FALSE), y1 |-> units(i, c.y1, FALSE)]

\* The path has a curve at the corner <<x, y>>: a quadratic curve whose
\* control point is the corner, or an arc that joins the two edges meeting
\* at the corner.
CurveAt(path, x, y) ==
    \E s \in Curves(path) :
        \/ s.kind = "quad" /\ s.ctrl = <<x, y>>
        \/ /\ s.kind = "arc"
           /\ \/ s.from[1] = x /\ s.to[2] = y
              \/ s.from[2] = y /\ s.to[1] = x

\* The neighbor flags of the module of a call, read from the grid.
North(c) == Flag(modules, c.row - 1, c.col)
South(c) == Flag(modules, c.row + 1, c.col)
East(c) == Flag(modules, c.row, c.col + 1)
West(c) == Flag(modules, c.row, c.col - 1)

C2_Applies ==
    /\ phase = "initialized"
    /\ drawer.cls \in RoundedClasses
    /\ drawer.box_size > 0

\* C2: in SvgRoundedDrawer and SvgPathRoundedDrawer, for every active module
\* and each of its four corners, the emitted path has a curve at the corner
\* if and only if both orthogonal neighbors adjacent to the corner are
\* inactive (top-left: N and W, top-right: N and E, bottom-right: S and E,
\* bottom-left: S and W); the diagonal neighbors play no part.
C2_CornerRule ==
    C2_Applies =>
        /\ Len(Sink) = Len(ActiveCalls)
        /\ \A k \in DOMAIN Sink :
              LET c == ActiveCalls[k]
                  b == Rounded_rect(drawer, img, c.box)
                  path == PathOf(Sink[k])
              IN  /\ CurveAt(path, b.x0, b.y0) <=> (~North(c) /\ ~West(c))
                  /\ CurveAt(path, b.x1, b.y0) <=> (~North(c) /\ ~East(c))
                  /\ CurveAt(path, b.x1, b.y1) <=> (~South(c) /\ ~East(c))
                  /\ CurveAt(path, b.x0, b.y1) <=> (~South(c) /\ ~West(c))

\* A module with an active north neighbor and active diagonal neighbors, and
\* no other orthogonal neighbor, has been drawn with curves at its two
\* bottom corners only.
C2_Witness ==
    /\ C2_Applies
    /\ \E k \in DOMAIN Sink :
          LET c == ActiveCalls[k]
              b == Rounded_rect(drawer, img, c.box)
              path == PathOf(Sink[k])
          IN  /\ North(c) /\ ~East(c) /\ ~South(c) /\ ~West(c)
              /\ Flag(modules, c.row + 1, c.col + 1)
              /\ Flag(modules, c.row + 1, c.col - 1)
              /\ Cardinality(Curves(path)) = 2
              /\ CurveAt(path, b.x1, b.y1) /\ CurveAt(path, b.x0, b.y1)

---------------------------------------------------------------------------
(* C3.  The neighbor probes of the element drawers.                        *)

\* C3: every neighbor probe whose (row, col) falls outside the grid yields
\* inactive and raises no error; a probe inside the grid yields the grid
\* value at that position.
C3_ProbesSafe ==
    \A k \in DOMAIN probes :
        LET p == probes[k]
            inside == /\ 0 <= p.row /\ p.row < GridRows
                      /\ 0 <= p.col /\ p.col < GridCols
        IN  /\ ~p.result.raised
            /\ p.result.value = (inside /\ modules[p.row][p.col])

\* A module in the first row and last column has been drawn: it probed
\* above the grid and right of the grid, and read an active neighbor inside.
C3_Witness ==
    /\ \E k \in DOMAIN probes : probes[k].row = -1
    /\ \E k \in DOMAIN probes : probes[k].col = GridCols
    /\ \E k \in DOMAIN probes :
          probes[k].row >= 0 /\ probes[k].col < GridCols
          /\ probes[k].result.value

---------------------------------------------------------------------------
(* C4, C5.  The horizontal bars.                                           *)

HorizontalBarsClasses ==
    {"SvgHorizontalBarsDrawer", "SvgPathHorizontalBarsDrawer"}

\* The adjusted rectangle of a bar, in output coordinates.
Bar_rect(d, i, box) ==
    IF d.cls = "SvgHorizontalBarsDrawer"
    THEN HorizontalBars_rect(d, box)
    ELSE PathHorizontalBars_rect(d, i, box)

\* A curve on the east (west) end of the bar with rectangle b.  An arc whose
\* two endpoints have the same x is a cap over a vertical chord: drawn with
\* sweep flag 1 it bulges east when it runs downwards and west when it runs
\* upwards.  Any other arc lies on the end whose x it reaches.
EastCurve(s, b) ==
    IF s.from[1] = s.to[1]
    THEN (s.to[2] > s.from[2]) = (s.sweep = 1)
    ELSE s.from[1] = b.x1 \/ s.to[1] = b.x1

WestCurve(s, b) ==
    IF s.from[1] = s.to[1]
    THEN (s.to[2] < s.from[2]) = (s.sweep = 1)
    ELSE s.from[1] = b.x0 \/ s.to[1] = b.x0

\* The path has a straight edge over the full height of b at abscissa x.
StraightEdge(path, b, x) ==
    LET segs == Segments(path)
    IN  \E k \in DOMAIN segs :
            /\ segs[k].kind = "line"
            /\ {segs[k].from, segs[k].to} = {<<x, b.y0>>, <<x, b.y1>>}

RoundedEast(path, b) ==
    /\ \E s \in Curves(path) : EastCurve(s, b)
    /\ ~StraightEdge(path, b, b.x1)

RoundedWest(path, b) ==
    /\ \E s \in Curves(path) : WestCurve(s, b)
    /\ ~StraightEdge(path, b, b.x0)

StraightEast(path, b) ==
    /\ StraightEdge(path, b, b.x1)
    /\ \A s \in Curves(path) : ~EastCurve(s, b)

StraightWest(path, b) ==
    /\ StraightEdge(path, b, b.x0)
    /\ \A s \in Curves(path) : ~WestCurve(s, b)

\* A horizontal bars drawer with an allowed style.
Bars_Applies ==
    /\ phase = "initialized"
    /\ drawer.cls \in HorizontalBarsClasses
    /\ WellFormed(drawer)
    /\ 0 < drawer.vertical_shrink /\ drawer.vertical_shrink <= OfInt(1)

C5_AdjacentBarsTile ==
    Bars_Applies =>
        \A k \in DOMAIN Sink :
            (/\ k + 1 \in DOMAIN Sink
             /\ k + 1 \in DOMAIN ActiveCalls
             /\ ActiveCalls[k + 1].row = ActiveCalls[k].row
             /\ ActiveCalls[k + 1].col = ActiveCalls[k].col + 1)
            => LET left == Bar_rect(drawer, img, ActiveCalls[k].box)
                   right == Bar_rect(drawer, img, ActiveCalls[k + 1].box)
               IN  /\ \A s \in Curves(PathOf(Sink[k])) : ~EastCurve(s, left)
                   /\ \A s \in Curves(PathOf(Sink[k + 1])) :
                          ~WestCurve(s, right)
                   /\ left.x1 = right.x0
                   /\ left.y0 = right.y0 /\ left.y1 = right.y1

---------------------------------------------------------------------------
(* C6.  drawrect for an inactive module.                                   *)

\* The step is a drawrect call for an inactive module.
InactiveCall ==
    /\ Len(calls') = Len(calls) + 1
    /\ ~bool(calls'[Len(calls')].is_active)

\* C6: for every drawer class, drawrect called for an inactive module
\* produces nothing: the sink is unchanged, no descriptor is built (no
\* neighbor is probed), and no drawer state, the stored neighbor flags
\* included, is changed.
C6_InactiveDrawsNothing ==
    [][InactiveCall => /\ img' = img
                       /\ drawer' = drawer
                       /\ probes' = <<>>]_vars

\* A path drawer that stores neighbor flags has drawn an active module and
\* then been called for an inactive one: the flags it holds are still those
\* of the active module.
C6_Witness ==
    /\ phase = "initialized"
    /\ drawer.cls \in StoresNeighbors
    /\ Len(calls) > 1
    /\ ~bool(calls[Len(calls)].is_active)
    /\ bool(calls[Len(calls) - 1].is_active)
    /\ hasattr(drawer, "_neighbors")
    /\ drawer["_neighbors"] = calls[Len(calls) - 1].is_active
    /\ drawer["_neighbors"] # calls[Len(calls)].is_active
    /\ Len(Sink) > 0

---------------------------------------------------------------------------
(* C7.  Malformed style parameters.                                        *)

\* C7: constructing a drawer with malformed style parameters (size ratio
\* outside (0, 1], a negative shrink fraction, a negative radius) is
\* rejected at construction time, so that no drawer exists, and no drawrect
\* call is reached, with such parameters.
C7_MalformedRejected ==
    /\ phase # "new" => WellFormed(drawer)
    /\ Len(calls) > 0 => WellFormed(drawer)

---------------------------------------------------------------------------
(* C8.  The radius of the rounded drawers.                                 *)

\* The radius a curve of a rounded block is drawn with: the radius written
\* in an arc, the distance from the start of a quadratic curve to its
\* control point (they differ along one axis).
Abs(n) == IF n < 0 THEN -n ELSE n

CurveRadius(s) ==
    IF s.kind = "arc" THEN s.radius
    ELSE Abs(s.from[1] - s.ctrl[1]) + Abs(s.from[2] - s.ctrl[2])

\* C8: in every rounded strategy, with well-formed style parameters, the
\* corner radius used in the emitted path never exceeds half the side of the
\* box the module is drawn in (a larger configured radius is capped).
C8_RadiusCapped ==
    (C2_Applies /\ WellFormed(drawer)) =>
        \A k \in DOMAIN Sink :
            LET b == Rounded_rect(drawer, img, ActiveCalls[k].box)
            IN  \A s \in Curves(PathOf(Sink[k])) :
                    /\ 2 * CurveRadius(s) <= b.x1 - b.x0
                    /\ 2 * CurveRadius(s) <= b.y1 - b.y0

---------------------------------------------------------------------------
(* C9.  The circle drawers.                                                *)

CircleClasses == {"SvgCircleDrawer", "SvgPathCircleDrawer"}

\* C9: for every module and every size ratio in (0, 1], SvgCircleDrawer
\* emits a circle centered at (xh, yh) with radius half the shrunk box size,
\* and SvgPathCircleDrawer emits two arcs between (x0, yh) and (x1, yh)
\* whose radius is that same half shrunk box size.
C9_SameCircle ==
    (C1_Applies /\ drawer.cls \in CircleClasses) =>
        \A k \in DOMAIN Sink :
            LET c == coords(drawer, ActiveCalls[k].box)
                half == units(img, drawer.box_size, FALSE)
                left == <<units(img, c.x0, FALSE), units(img, c.yh, FALSE)>>
                right == <<units(img, c.x1, FALSE), units(img, c.yh, FALSE)>>
            IN  IF drawer.cls = "SvgCircleDrawer"
                THEN /\ Sink[k].tag = "circle"
                     /\ Sink[k].cx.length = units(img, c.xh, FALSE)
                     /\ Sink[k].cy.length = units(img, c.yh, FALSE)
                     /\ 2 * Sink[k].r.length = half
                ELSE LET arcs == SelectSeq(Segments(Sink[k]),
                                           LAMBDA s : s.kind = "arc")
                     IN  /\ Len(arcs) = 2
                         /\ arcs[1].from = left /\ arcs[1].to = right
                         /\ arcs[2].from = right /\ arcs[2].to = left
                         /\ 2 * arcs[1].radius = half
                         /\ 2 * arcs[2].radius = half

---------------------------------------------------------------------------
(* C10.  The order of the sink.                                            *)

\* The descriptor of the module of a call: what the drawer builds for the
\* box with the neighbor flags of that call.
Descriptor(c) ==
    IF drawer.cls \in ElementClasses
    THEN el(drawer, img, modules, c.box)
    ELSE IF drawer.cls \in StoresNeighbors
         THEN subpath(setattr(drawer, "_neighbors", c.is_active), img, c.box)
         ELSE subpath(drawer, img, c.box)

\* C10: after any sequence of drawrect calls on one drawer, the sink holds
\* exactly one entry per call made with an active module, in the order of
\* those calls, the entry being the descriptor of the module of that call.
C10_SinkIsActiveCallsInOrder ==
    phase = "initialized" =>
        /\ Len(Sink) = Len(ActiveCalls)
        /\ \A k \in DOMAIN Sink : Sink[k] = Descriptor(ActiveCalls[k])

\* Two active modules with different descriptors have been drawn, with a
\* call for an inactive module between them.
C10_Witness ==
    /\ phase = "initialized"
    /\ Len(Sink) >= 2
    /\ Sink[1] # Sink[2]
    /\ \E i, j, k \in DOMAIN calls :
          /\ i < j /\ j < k
          /\ bool(calls[i].is_active) /\ ~bool(calls[j].is_active)
          /\ bool(calls[k].is_active)

---------------------------------------------------------------------------
(* C11.  Concurrent drawrect calls on one drawer.                          *)

\* C11: when drawrect calls for different active modules run concurrently
\* on one drawer with their steps interleaved in any way, every appended
\* shape or path fragment is the one that module gets when drawn alone: it
\* depends only on the grid's neighbor values for that module and on the
\* drawer's precomputed constants.
C11_FragmentsIndependentOfInterleaving ==
    phase = "initialized" =>
        /\ \A t \in Threads :
              inflight[t].pc = "append" =>
                  inflight[t].built = Descriptor(inflight[t])
        /\ \A k \in DOMAIN Sink :
              k \in DOMAIN ActiveCalls => Sink[k] = Descriptor(ActiveCalls[k])

---------------------------------------------------------------------------
(* C12.  The caps of the bars.                                             *)

VerticalBarsClasses == {"SvgVerticalBarsDrawer", "SvgPathVerticalBarsDrawer"}

BarsClasses == HorizontalBarsClasses \cup VerticalBarsClasses

\* The adjusted rectangle of a vertical bar, in output coordinates.
VBar_rect(d, i, box) ==
    LET c == coords(d, box)
        h_delta == DecDivide(DecTimes(OfInt(1) - d.horizontal_shrink,
                                      c.x1 - c.x0), OfInt(2))
    IN  IF d.cls = "SvgVerticalBarsDrawer"
        THEN [x0 |-> DecDivide(c.x0 + h_delta, SCALE_CORRECTION),
              x1 |-> DecDivide(c.x1 - h_delta, SCALE_CORRECTION),
              y0 |-> DecDivide(c.y0, SCALE_CORRECTION),
              y1 |-> DecDivide(c.y1, SCALE_CORRECTION)]
        ELSE [x0 |-> units(i, c.x0 + d.h_delta, FALSE),
              x1 |-> units(i, c.x1 - d.h_delta, FALSE),
              y0 |-> units(i, c.y0, FALSE),
              y1 |-> units(i, c.y1, FALSE)]

\* A bar seen along its axis: lo and hi are the two ends of the adjusted
\* rectangle along the bar, a and b its two long edges; a point is
\* <<along, across>>.  A vertical bar is a horizontal one with the
\* coordinates exchanged.
AlongBar(d, p) ==
    IF d.cls \in HorizontalBarsClasses THEN p ELSE <<p[2], p[1]>>

Bar_axes(d, i, box) ==
    IF d.cls \in HorizontalBarsClasses
    THEN LET r == Bar_rect(d, i, box)
         IN  [lo |-> r.x0, hi |-> r.x1, a |-> r.y0, b |-> r.y1]
    ELSE LET r == VBar_rect(d, i, box)
         IN  [lo |-> r.y0, hi |-> r.y1, a |-> r.x0, b |-> r.x1]

\* Whether the neighbors at the lo and hi end of the bar are active.
ConnectedLo(c) ==
    IF drawer.cls \in HorizontalBarsClasses THEN West(c) ELSE North(c)

ConnectedHi(c) ==
    IF drawer.cls \in HorizontalBarsClasses THEN East(c) ELSE South(c)

\* Equal up to the rounding of the last digit of a quotient.
Near(x, y) == x - y \in {-1, 0, 1}

NotAbove(x, y) == x <= y \/ Near(x, y)

\* The end at `end` (the hi end if towards_hi, else the lo end) is a full
\* semicircular cap: every arc is written with a radius r that is half the
\* thickness, both long edges stop r short of the end, and the two points
\* where they stop are where the curves of the cap begin and end.
FullCap(d, path, ax, end, towards_hi) ==
    LET segs == Segments(path)
        arcs == {segs[k] : k \in {j \in DOMAIN segs : segs[j].kind # "line"}}
        lines == {segs[k] : k \in {j \in DOMAIN segs : segs[j].kind = "line"}}
        Stop(r) == IF towards_hi THEN end - r ELSE end + r
        Ends(s) == {AlongBar(d, s.from), AlongBar(d, s.to)}
    IN  /\ arcs # {}
        /\ \A s \in arcs :
              /\ s.kind = "arc"
              /\ Near(2 * s.radius, ax.b - ax.a)
        /\ \E s \in arcs : <<Stop(s.radius), ax.a>> \in Ends(s)
        /\ \E s \in arcs : <<Stop(s.radius), ax.b>> \in Ends(s)
        /\ \A l \in lines : \A s \in arcs :
              (/\ AlongBar(d, l.from)[2] = AlongBar(d, l.to)[2]
               /\ AlongBar(d, l.from)[2] \in {ax.a, ax.b})
              => \A p \in Ends(l) :
                    IF towards_hi THEN NotAbove(p[1], Stop(s.radius))
                                  ELSE NotAbove(Stop(s.radius), p[1])

\* A bars drawer with an allowed style.
C12_Applies ==
    /\ phase = "initialized"
    /\ drawer.cls \in BarsClasses
    /\ WellFormed(drawer)
    /\ drawer.cls \in HorizontalBarsClasses =>
          (0 < drawer.vertical_shrink /\ drawer.vertical_shrink <= OfInt(1))
    /\ drawer.cls \in VerticalBarsClasses =>
          (0 < drawer.horizontal_shrink
           /\ drawer.horizontal_shrink <= OfInt(1))

\* C12: in every Bars strategy (horizontal and vertical, element and path
\* variants), a rounded end is a full semicircular cap of radius r = half
\* the bar thickness: both long edges stop exactly r short of that end of
\* the adjusted rectangle, the cap's two endpoints lie on the same line
\* perpendicular to the bar, 2r apart, and the arc radius written is r.
C12_RoundedEndsAreSemicircles ==
    C12_Applies =>
        \A k \in DOMAIN Sink :
            LET c == ActiveCalls[k]
                ax == Bar_axes(drawer, img, c.box)
                path == PathOf(Sink[k])
            IN  /\ ~ConnectedLo(c) => FullCap(drawer, path, ax, ax.lo, FALSE)
                /\ ~ConnectedHi(c) => FullCap(drawer, path, ax, ax.hi, TRUE)

---------------------------------------------------------------------------
(* C13.  The path build_dynamic_path returns.                              *)

Sign(x) == IF x > 0 THEN 1 ELSE IF x < 0 THEN -1 ELSE 0

\* The point at distance r from corner p along the edge from p to corner q
\* of an axis-parallel rectangle.
AlongEdge(p, q, r) ==
    <<p[1] + r * Sign(q[1] - p[1]), p[2] + r * Sign(q[2] - p[2])>>

\* The corners of a call in clockwise order from the top-left one, and the
\* round flags in the same order.
CornersOf(c) == <<c.top_left, c.top_right, c.bottom_right, c.bottom_left>>

RoundOf(c) == <<c.round_tl, c.round_tr, c.round_br, c.round_bl>>

Before(k) == IF k = 1 THEN 4 ELSE k - 1

After(k) == IF k = 4 THEN 1 ELSE k + 1

\* Where the outline reaches corner k and where it leaves it: on a rounded
\* corner the two points at distance radius on its two edges, else the
\* corner itself.
Enters(d, c, k) ==
    IF RoundOf(c)[k]
    THEN AlongEdge(CornersOf(c)[k], CornersOf(c)[Before(k)], d.radius)
    ELSE CornersOf(c)[k]

Leaves(d, c, k) ==
    IF RoundOf(c)[k]
    THEN AlongEdge(CornersOf(c)[k], CornersOf(c)[After(k)], d.radius)
    ELSE CornersOf(c)[k]

\* What is drawn at corner k: the straight line to the corner (none at the
\* first corner, where the path starts), followed on a rounded corner by
\* the curve around it.
AtCorner(d, c, k) ==
    (IF k = 1 THEN <<>>
     ELSE <<Segment("line", Leaves(d, c, k - 1), Enters(d, c, k),
                    Leaves(d, c, k - 1), 0, 0)>>)
    \o
    (IF RoundOf(c)[k]
     THEN <<Segment("quad", Enters(d, c, k), Leaves(d, c, k),
                    CornersOf(c)[k], 0, 0)>>
     ELSE <<>>)

\* The outline of a call: the four corners in clockwise order, then the
\* closing line back to the start.
Outline(d, c) ==
    AtCorner(d, c, 1) \o AtCorner(d, c, 2) \o AtCorner(d, c, 3)
    \o AtCorner(d, c, 4)
    \o <<Segment("line", Leaves(d, c, 4), Enters(d, c, 1),
                  Leaves(d, c, 4), 0, 0)>>

\* C13: for every rectangle and all 16 combinations of the round flags,
\* build_dynamic_path returns one path that starts with its only moveto,
\* ends with its only close-path command, and visits the corners clockwise
\* top-left, top-right, bottom-right, bottom-left, with a curve (control
\* point the corner, endpoints at distance radius along its two edges)
\* exactly at the corners whose flag is set and a straight line to the
\* corner point at every other corner.
C13_PathShape ==
    \A k \in DOMAIN calls :
        "returned" \in DOMAIN calls[k] =>
            LET path == calls[k].returned
            IN  /\ {j \in DOMAIN path : path[j].op = "M"} = {1}
                /\ {j \in DOMAIN path : path[j].op = "Z"} = {Len(path)}
                /\ path[1].args = Enters(drawer, calls[k], 1)
                /\ Segments(path) = Outline(drawer, calls[k])

\* A call with a positive radius that rounds two opposite corners only.
C13_Witness ==
    /\ calls # <<>>
    /\ "returned" \in DOMAIN calls[1]
    /\ drawer.radius > 0
    /\ RoundOf(calls[1]) = <<TRUE, FALSE, TRUE, FALSE>>
    /\ C13_PathShape

---------------------------------------------------------------------------
(* C14.  The element drawers that read the grid themselves.                *)

ProbingClasses ==
    {"SvgHorizontalBarsDrawer", "SvgVerticalBarsDrawer", "SvgRoundedDrawer"}

\* The path drawer of the same style as the element bars drawer d, after
\* drawrect has stored the flags a in it.
PathTwin(d, i, a) ==
    LET twin == IF d.cls = "SvgHorizontalBarsDrawer"
                THEN init("SvgPathHorizontalBarsDrawer",
                          [size_ratio |-> d.size_ratio,
                           vertical_shrink |-> d.vertical_shrink])
                ELSE init("SvgPathVerticalBarsDrawer",
                          [size_ratio |-> d.size_ratio,
                           horizontal_shrink |-> d.horizontal_shrink])
    IN  setattr(initialize(twin, i), "_neighbors", a)

\* The path closes the bar at `end` with a straight edge over its full
\* thickness: that end is not rounded.
FlatEnd(d, path, ax, end) ==
    LET segs == Segments(path)
    IN  \E k \in DOMAIN segs :
            /\ segs[k].kind = "line"
            /\ {AlongBar(d, segs[k].from), AlongBar(d, segs[k].to)}
                  = {<<end, ax.a>>, <<end, ax.b>>}

\* The values the drawer read from the grid for the call c are the flags
\* the loop passed with that call, direction by direction.
ProbesAreFlags(c) ==
    LET a == c.is_active
        v == [k \in DOMAIN probes |-> probes[k].result.value]
    IN  CASE drawer.cls = "SvgHorizontalBarsDrawer" -> v = <<a.W, a.E>>
          [] drawer.cls = "SvgVerticalBarsDrawer" -> v = <<a.N, a.S>>
          [] drawer.cls = "SvgRoundedDrawer" ->
                v = <<a.N, a.NE, a.E, a.SE, a.S, a.SW, a.W, a.NW>>

\* The element drawer rounds for the call c what the path drawer of the same
\* style rounds when it is given the flags of c: the same corners, or the
\* same ends of the bar.
SameDecision(c, drawn) ==
    LET a == c.is_active
    IN  IF drawer.cls = "SvgRoundedDrawer"
        THEN LET f == Rounded_flags(probes[1].result.value,
                                    probes[3].result.value,
                                    probes[5].result.value,
                                    probes[7].result.value)
                 g == PathRounded_corners(a.N, a.E, a.S, a.W)
             IN  <<f.tl, f.tr, f.br, f.bl>> = <<g.nw, g.ne, g.se, g.sw>>
        ELSE LET twin == PathTwin(drawer, img, a)
                 ax == Bar_axes(drawer, img, c.box)
                 tx == Bar_axes(twin, img, c.box)
                 path == subpath(twin, img, c.box)
             IN  /\ FlatEnd(drawer, drawn, ax, ax.lo)
                       = FlatEnd(twin, path, tx, tx.lo)
                 /\ FlatEnd(drawer, drawn, ax, ax.hi)
                       = FlatEnd(twin, path, tx, tx.hi)

\* The latest call of the loop, and whether it drew a module.
LastCall == calls[Len(calls)]

Drew == calls # <<>> /\ bool(LastCall.is_active)

\* C14: the element drawers that read the grid themselves recover the
\* module's grid position from its box exactly: int(py0 / cell_size) -
\* border is the row and int(px0 / cell_size) - border the column of every
\* call; hence the values they read from the grid are the flags the loop
\* passes for that module, and the element and the path variant make the
\* same rounding decision.
C14_GridPositionRecovered ==
    (phase = "initialized" /\ drawer.cls \in ProbingClasses) =>
        /\ \A k \in DOMAIN calls :
              /\ grid_row(img, calls[k].box) = calls[k].row
              /\ grid_col(img, calls[k].box) = calls[k].col
        /\ Drew =>
              /\ ProbesAreFlags(LastCall)
              /\ SameDecision(LastCall, PathOf(Sink[Len(Sink)]))

\* With a border, a module off the first row and column has been drawn by
\* an element bars drawer that found one end connected and the other free,
\* and drew one flat and one rounded end.
C14_Witness ==
    /\ phase = "initialized"
    /\ drawer.cls \in ProbingClasses \ {"SvgRoundedDrawer"}
    /\ C12_Applies
    /\ img.border > 0
    /\ Drew
    /\ LastCall.row > 0 /\ LastCall.col > 0
    /\ probes[1].result.value /\ ~probes[2].result.value
    /\ LET ax == Bar_axes(drawer, img, LastCall.box)
           drawn == PathOf(Sink[Len(Sink)])
       IN  /\ FlatEnd(drawer, drawn, ax, ax.lo)
           /\ ~FlatEnd(drawer, drawn, ax, ax.hi)
    /\ C14_GridPositionRecovered

====
